---- MODULE Spec2Model ----
(***************************************************************************)
(* A model of exporttool.py (and of its predecessor scribl.py): bucket     *)
(* discovery (list_full_paths), the command list (build_cmd_list), main's  *)
(* window check, prompt and worker pool, and the per-task output functions *)
(* (seo_file_output, exo_file_output, net_output) with the record          *)
(* reassembly loop and record_format.                                      *)
(*                                                                         *)
(* Python strings are sequences of one-character strings, so that split,   *)
(* strip, startswith, "in", int() and the record pattern are computed as   *)
(* the code computes them.                                                 *)
(***************************************************************************)
EXTENDS Integers, Sequences, FiniteSets, TLC

(***************************************************************************)
(* Bounds of the model.                                                    *)
(***************************************************************************)
\* the longest list of candidate files (walk result or import_buckets)
MaxFiles == 2
\* window bounds earliest/latest range up to MaxTime
MaxTime == 5
\* the longest output of an extraction subprocess, in lines
MaxLines == 3
\* num_streams ranges over 0..MaxStreams
MaxStreams == 2
\* the lines a pipe holds unread before a write to it blocks: the longest
\* output of a child is longer
PipeCapacity == MaxLines - 1

(***************************************************************************)
(* Strings.                                                                *)
(***************************************************************************)
Digits == {"0", "1", "2", "3", "4", "5", "6", "7", "8", "9"}

\* str.isspace() on the characters the model uses
Whitespace == {" ", "\n", "\t"}

DigitVal(c) ==
    CASE c = "0" -> 0 [] c = "1" -> 1 [] c = "2" -> 2 [] c = "3" -> 3
      [] c = "4" -> 4 [] c = "5" -> 5 [] c = "6" -> 6 [] c = "7" -> 7
      [] c = "8" -> 8 [] c = "9" -> 9

RECURSIVE Concat(_)
\* "".join(parts)
Concat(parts) ==
    IF parts = <<>> THEN <<>> ELSE Head(parts) \o Concat(Tail(parts))

\* s.startswith(p)
StartsWith(s, p) == Len(s) >= Len(p) /\ SubSeq(s, 1, Len(p)) = p

\* the positions at which p occurs in s
Occurrences(s, p) ==
    {i \in 1..(Len(s) - Len(p) + 1) : SubSeq(s, i, i + Len(p) - 1) = p}

\* p in s
Contains(s, p) == Occurrences(s, p) # {}

\* s.isdigit(): non-empty and every character a digit
IsDigit(s) == s # <<>> /\ \A i \in 1..Len(s) : s[i] \in Digits

RECURSIVE SplitFrom(_, _, _)
\* s.split(sep) for a one-character sep, the piece under way being acc
SplitFrom(s, sep, acc) ==
    IF s = <<>> THEN <<acc>>
    ELSE IF Head(s) = sep THEN <<acc>> \o SplitFrom(Tail(s), sep, <<>>)
    ELSE SplitFrom(Tail(s), sep, Append(acc, Head(s)))

\* s.split(sep): always at least one piece, empty pieces kept
Split(s, sep) == SplitFrom(s, sep, <<>>)

RECURSIVE LStrip(_)
LStrip(s) ==
    IF s # <<>> /\ Head(s) \in Whitespace THEN LStrip(Tail(s)) ELSE s

RECURSIVE RStrip(_)
RStrip(s) ==
    IF s # <<>> /\ s[Len(s)] \in Whitespace
    THEN RStrip(SubSeq(s, 1, Len(s) - 1)) ELSE s

\* s.strip()
Strip(s) == RStrip(LStrip(s))

RECURSIVE WordsFrom(_, _)
\* s.split() with no separator: runs of non-whitespace, no empty pieces
WordsFrom(s, acc) ==
    IF s = <<>> THEN (IF acc = <<>> THEN <<>> ELSE <<acc>>)
    ELSE IF Head(s) \in Whitespace
         THEN (IF acc = <<>> THEN <<>> ELSE <<acc>>) \o WordsFrom(Tail(s), <<>>)
    ELSE WordsFrom(Tail(s), Append(acc, Head(s)))

Words(s) == WordsFrom(s, <<>>)

RECURSIVE DecimalValue(_, _)
DecimalValue(s, acc) ==
    IF s = <<>> THEN acc
    ELSE DecimalValue(Tail(s), 10 * acc + DigitVal(Head(s)))

\* int(s): the value, or the exception it raises. Surrounding whitespace is
\* ignored; the file names of the model hold no sign and no underscore
\* inside a time token.
PyInt(s) ==
    IF IsDigit(Strip(s))
    THEN [ok |-> TRUE, val |-> DecimalValue(Strip(s), 0)]
    ELSE [ok |-> FALSE, exc |-> "ValueError"]

\* seq[-k], the k-th element from the end (k >= 1), or IndexError
FromEnd(seq, k) ==
    IF Len(seq) >= k
    THEN [ok |-> TRUE, val |-> seq[Len(seq) - k + 1]]
    ELSE [ok |-> FALSE, exc |-> "IndexError"]

\* the elements of a list, as a set
Range(seq) == {seq[i] : i \in 1..Len(seq)}

(***************************************************************************)
(* Literals of the program.                                                *)
(***************************************************************************)
Slash == "/"

DISABLED == <<"D", "I", "S", "A", "B", "L", "E", "D">>

rb_ == <<"r", "b", "_">>

hot == <<"h", "o", "t">>

hot_ == <<"h", "o", "t", "_">>

tsidx_word == <<"t", "s", "i", "d", "x">>

(***************************************************************************)
(* exporttool.list_full_paths                                              *)
(***************************************************************************)
\* re.sub("\/[^\/]+$", "", file): the last "/" and the non-empty run without
\* "/" after it are removed; a string with no such tail is left as it is
ParentDir(file) ==
    LET parts == Split(file, Slash)
        last == parts[Len(parts)]
    IN  IF Len(parts) >= 2 /\ last # <<>>
        THEN SubSeq(file, 1, Len(file) - Len(last) - 1)
        ELSE file

\* the variant of the time test that lets a window touching only one of the
\* two bounds through
TimeTestEitherBound(earliest, latest, max_epoch, min_epoch) ==
    IF ~PyInt(max_epoch).ok THEN [ok |-> FALSE, exc |-> "ValueError"]
    ELSE IF earliest <= PyInt(max_epoch).val THEN [ok |-> TRUE, val |-> TRUE]
    ELSE IF ~PyInt(min_epoch).ok THEN [ok |-> FALSE, exc |-> "ValueError"]
    ELSE [ok |-> TRUE, val |-> latest >= PyInt(min_epoch).val]

\* earliest <= int(max_epoch) and latest >= int(min_epoch), evaluated left to
\* right: int(min_epoch) is not evaluated when the first test fails
TimeTest(earliest, latest, max_epoch, min_epoch) ==
    IF ~PyInt(max_epoch).ok THEN [ok |-> FALSE, exc |-> "ValueError"]
    ELSE IF ~(earliest <= PyInt(max_epoch).val) THEN [ok |-> TRUE, val |-> FALSE]
    ELSE IF ~PyInt(min_epoch).ok THEN [ok |-> FALSE, exc |-> "ValueError"]
    ELSE [ok |-> TRUE, val |-> latest >= PyInt(min_epoch).val]

\* the variant of the name test that forgets the replicated buckets
NameTestNoReplicated(file, bucketName) ==
    /\ ~Contains(file, DISABLED)
    /\ ~StartsWith(bucketName, hot)

\* "DISABLED" not in file and not bucketName.startswith("rb_")
\* and not bucketName.startswith("hot")
NameTest(file, bucketName) ==
    /\ ~Contains(file, DISABLED)
    /\ ~StartsWith(bucketName, rb_)
    /\ ~StartsWith(bucketName, hot)

\* one iteration of the loop over files: what it does with one file
\*   [kind |-> "raise", exc]      the iteration raises
\*   [kind |-> "skip"]            the file is not selected
\*   [kind |-> "append", bucket]  the parent directory is appended to buckets
FileStep(file, earliest, latest) ==
    LET tsidx == FromEnd(Split(file, Slash), 1).val
        max_epoch == FromEnd(Split(tsidx, "-"), 3)
        min_epoch == FromEnd(Split(tsidx, "-"), 2)
        bucketName == FromEnd(Split(file, Slash), 2)
    IN  IF ~max_epoch.ok THEN [kind |-> "raise", exc |-> "IndexError"]
        ELSE IF ~bucketName.ok THEN [kind |-> "raise", exc |-> "IndexError"]
        ELSE LET t == TimeTest(earliest, latest, max_epoch.val, min_epoch.val)
             IN  IF ~t.ok THEN [kind |-> "raise", exc |-> t.exc]
                 ELSE IF t.val /\ NameTest(file, bucketName.val)
                      THEN [kind |-> "append", bucket |-> ParentDir(file)]
                      ELSE [kind |-> "skip"]

\* files: the stripped lines of import_buckets when there are any, the
\* result of glob.glob(f"{directory}/**/*.tsidx") otherwise
CandidateFiles(import_buckets, globbed) ==
    IF Len(import_buckets) > 0
    THEN [i \in 1..Len(import_buckets) |-> Strip(import_buckets[i])]
    ELSE globbed

RECURSIVE BucketsLoop(_, _, _, _, _)
\* the loop over files from index i on, buckets being the list so far; every
\* entry keeps the index of the file that appended it. The result is the
\* list at the end of the loop, or the exception that ended it.
BucketsLoop(files, i, earliest, latest, buckets) ==
    IF i > Len(files) THEN [ok |-> TRUE, val |-> buckets]
    ELSE LET step == FileStep(files[i], earliest, latest)
         IN  IF step.kind = "raise" THEN [ok |-> FALSE, exc |-> step.exc]
             ELSE BucketsLoop(files, i + 1, earliest, latest,
                    IF step.kind = "append"
                    THEN Append(buckets, [path |-> step.bucket, from |-> i])
                    ELSE buckets)

\* the variant that returns the list as it is: one entry per selected file
ReturnList(buckets) == [i \in 1..Len(buckets) |-> buckets[i].path]

\* return set(buckets); kept as a duplicate-free list in an order of the
\* set's choosing (build_cmd_list iterates it), here the one of first
\* appearance
ReturnSet(buckets) ==
    LET paths == [i \in 1..Len(buckets) |-> buckets[i].path]
        first == {i \in 1..Len(paths) : \A j \in 1..(i - 1) : paths[j] # paths[i]}
        Pick[k \in 0..Len(paths)] ==
            IF k = 0 THEN <<>>
            ELSE IF k \in first THEN Append(Pick[k - 1], paths[k]) ELSE Pick[k - 1]
    IN  Pick[Len(paths)]

\* list_full_paths(directory, earliest, latest, import_buckets), the files
\* under directory being globbed
list_full_paths(globbed, earliest, latest, import_buckets) ==
    LET files == CandidateFiles(import_buckets, globbed)
        loop == BucketsLoop(files, 1, earliest, latest, <<>>)
    IN  IF loop.ok
        THEN [ok |-> TRUE, files |-> files, appended |-> loop.val,
              val |-> ReturnSet(loop.val)]
        ELSE [ok |-> FALSE, files |-> files, exc |-> loop.exc]

(***************************************************************************)
(* scribl.list_full_paths                                                  *)
(***************************************************************************)
\* os.walk yields (root, files): the directory and the name of a found file
WalkRoot(path) == ParentDir(path)

WalkFile(path) == FromEnd(Split(path, Slash), 1).val

\* not (latest <= int(minEpoch) or earliest >= int(maxEpoch)), left to right
scribl_TimeTest(earliest, latest, maxEpoch, minEpoch) ==
    IF ~PyInt(minEpoch).ok THEN [ok |-> FALSE, exc |-> "ValueError"]
    ELSE IF latest <= PyInt(minEpoch).val THEN [ok |-> TRUE, val |-> FALSE]
    ELSE IF ~PyInt(maxEpoch).ok THEN [ok |-> FALSE, exc |-> "ValueError"]
    ELSE [ok |-> TRUE, val |-> ~(earliest >= PyInt(maxEpoch).val)]

\* "DISABLED" not in root and not dirName[0].startswith("rb_")
\* and not dirName[0].startswith("hot_")
scribl_NameTest(root, dirName) ==
    /\ ~Contains(root, DISABLED)
    /\ ~StartsWith(dirName, rb_)
    /\ ~StartsWith(dirName, hot_)

\* one iteration of the inner loop, for the file at path
scribl_FileStep(path, earliest, latest) ==
    LET root == WalkRoot(path)
        file == WalkFile(path)
        fileParsed == Split(file, "-")
        dirName == FromEnd(Split(root, Slash), 1).val
    IN  IF ~Contains(file, tsidx_word) THEN [kind |-> "skip"]
        ELSE IF Len(fileParsed) < 2 THEN [kind |-> "raise", exc |-> "IndexError"]
        ELSE LET t == scribl_TimeTest(earliest, latest, fileParsed[1], fileParsed[2])
             IN  IF ~t.ok THEN [kind |-> "raise", exc |-> t.exc]
                 ELSE IF t.val /\ scribl_NameTest(root, dirName)
                      THEN [kind |-> "append", bucket |-> root]
                      ELSE [kind |-> "skip"]

RECURSIVE scribl_BucketsLoop(_, _, _, _, _)
\* the walk from the i-th found file on; if root not in buckets:
\* buckets.append(root)
scribl_BucketsLoop(files, i, earliest, latest, buckets) ==
    IF i > Len(files) THEN [ok |-> TRUE, val |-> buckets]
    ELSE LET step == scribl_FileStep(files[i], earliest, latest)
         IN  IF step.kind = "raise" THEN [ok |-> FALSE, exc |-> step.exc]
             ELSE scribl_BucketsLoop(files, i + 1, earliest, latest,
                    IF /\ step.kind = "append"
                       /\ \A k \in 1..Len(buckets) : buckets[k].path # step.bucket
                    THEN Append(buckets, [path |-> step.bucket, from |-> i])
                    ELSE buckets)

\* scribl.list_full_paths(directory, earliest, latest), walked being the
\* files under directory
scribl_list_full_paths(walked, earliest, latest) ==
    LET loop == scribl_BucketsLoop(walked, 1, earliest, latest, <<>>)
    IN  IF loop.ok
        THEN [ok |-> TRUE, files |-> walked, appended |-> loop.val,
              val |-> [i \in 1..Len(loop.val) |-> loop.val[i].path]]
        ELSE [ok |-> FALSE, files |-> walked, exc |-> loop.exc]

(***************************************************************************)
(* The files and import lines the model draws its inputs from.             *)
(***************************************************************************)
\* bucket db_1 of index directory /v/i, times 2..3
File_db1_a ==
    <<"/", "v", "/", "i", "/", "d", "b", "_", "1", "/", "3", "-", "2", "-",
      "7", ".", "t", "s", "i", "d", "x">>

\* a second data file of the same bucket, times 4..5
File_db1_b ==
    <<"/", "v", "/", "i", "/", "d", "b", "_", "1", "/", "5", "-", "4", "-",
      "8", ".", "t", "s", "i", "d", "x">>

\* a replicated bucket
File_rb ==
    <<"/", "v", "/", "i", "/", "r", "b", "_", "2", "/", "3", "-", "2", "-",
      "7", ".", "t", "s", "i", "d", "x">>

\* a hot bucket
File_hot ==
    <<"/", "v", "/", "i", "/", "h", "o", "t", "_", "3", "/", "3", "-", "2",
      "-", "7", ".", "t", "s", "i", "d", "x">>

\* a bucket whose name starts with hot but not with hot_
File_hotel ==
    <<"/", "v", "/", "i", "/", "h", "o", "t", "e", "l", "/", "3", "-", "2",
      "-", "7", ".", "t", "s", "i", "d", "x">>

\* a disabled bucket directory
File_disabled_dir ==
    <<"/", "v", "/", "i", "/", "D", "I", "S", "A", "B", "L", "E", "D", "-",
      "d", "b", "_", "4", "/", "3", "-", "2", "-", "7", ".", "t", "s", "i",
      "d", "x">>

\* DISABLED in the file name only
File_disabled_name ==
    <<"/", "v", "/", "i", "/", "d", "b", "_", "7", "/", "3", "-", "2", "-",
      "D", "I", "S", "A", "B", "L", "E", "D", ".", "t", "s", "i", "d", "x">>

\* a non-numeric max token
File_bad_max ==
    <<"/", "v", "/", "i", "/", "d", "b", "_", "5", "/", "x", "-", "2", "-",
      "7", ".", "t", "s", "i", "d", "x">>

\* another bucket of the index, times 4..5
File_db9 ==
    <<"/", "v", "/", "i", "/", "d", "b", "_", "9", "/", "5", "-", "4", "-",
      "8", ".", "t", "s", "i", "d", "x">>

\* a SmartStore bucket, its directory named after the guid, times 2..3
File_guid ==
    <<"/", "v", "/", "i", "/", "g", "_", "1", "/", "3", "-", "2", "-", "7",
      ".", "t", "s", "i", "d", "x">>

\* a bucket of the same name under another index, times 4..5
File_other_index ==
    <<"/", "w", "/", "j", "/", "d", "b", "_", "1", "/", "5", "-", "4", "-",
      "8", ".", "t", "s", "i", "d", "x">>

\* a line of an import list, as read from a file
Line_padded ==
    <<" ", "/", "v", "/", "i", "/", "d", "b", "_", "1", "/", "3", "-", "2",
      "-", "7", ".", "t", "s", "i", "d", "x", "\n">>

\* a line with no directory
Line_no_dir ==
    <<"3", "-", "2", "-", "7", ".", "t", "s", "i", "d", "x">>

\* what glob.glob / os.walk may find under the directory
FoundCatalog ==
    {File_db1_a,
     File_db1_b,
     File_rb,
     File_hot,
     File_hotel,
     File_disabled_dir,
     File_disabled_name,
     File_bad_max,
     File_db9}

\* what import_buckets may hold
ImportCatalog ==
    {File_db1_a,
     File_rb,
     File_other_index,
     Line_padded,
     Line_no_dir}

\* the lists of length at most n over S
ListsUpTo(S, n) == UNION {[1..k -> S] : k \in 0..n}

\* the lists a search of the file system may give: no file twice
FoundUpTo(S, n) ==
    {l \in ListsUpTo(S, n) : \A i, j \in 1..Len(l) : l[i] = l[j] => i = j}

(***************************************************************************)
(* State.                                                                  *)
(***************************************************************************)
VARIABLES
    variant,       \* which program runs: "exporttool" or "scribl"
    et_options,    \* the configuration (et_options.py, or scribl's arguments)
    globbed,       \* the data files glob.glob / os.walk finds under directory
    env,           \* the extraction program: the lines it may print, how
                   \* many, and the statuses it may exit with
    pc,            \* where main is
    exit_status,   \* the status the process has exited with, "none" before
    main_exc,      \* the exception that ended main, "none" if none did
    lfp,           \* what list_full_paths returned or raised, "none" before
    buckets,       \* main's buckets
    cli_commands,  \* main's cli_commands
    answers,       \* what was typed at the prompt, lowered: none or one
    tasks,         \* the run of each command mapped over the pool
    fsys           \* the output files: name -> the strings written

vars ==
    <<variant, et_options, globbed, env, pc, exit_status, main_exc, lfp,
      buckets, cli_commands, answers, tasks, fsys>>

(***************************************************************************)
(* build_cmd_list                                                          *)
(***************************************************************************)
cmd_head ==
    <<"/", "b", "i", "n", "/", "s", "p", "l", "u", "n", "k", " ", "c", "m",
      "d", " ", "e", "x", "p", "o", "r", "t", "t", "o", "o", "l", " ">>

cmd_tail ==
    <<" ", "/", "d", "e", "v", "/", "s", "t", "d", "o", "u", "t", " ", "-",
      "c", "s", "v", " ">>

scribl_cmd_head ==
    <<"/", "o", "p", "t", "/", "s", "p", "l", "u", "n", "k", "/", "b", "i",
      "n", "/", "s", "p", "l", "u", "n", "k", " ", "c", "m", "d", " ", "e",
      "x", "p", "o", "r", "t", "t", "o", "o", "l", " ">>

scribl_nc ==
    <<"|", " ", "n", "c", " ", "h", " ", "1">>

\* f"{splunk_home}/bin/splunk cmd exporttool {bucket} /dev/stdout -csv "
exporttool_cmd(splunk_home, bucket) ==
    splunk_home \o cmd_head \o bucket \o cmd_tail

\* scribl: the same command piped into nc (no -kv, no --ssl): remoteIP h,
\* remotePort 1
exporttoolCmd(bucket) == scribl_cmd_head \o bucket \o cmd_tail \o scribl_nc

\* the orders in which a collection of n elements may be iterated
Orders(n) == {f \in [1..n -> 1..n] : \A i, j \in 1..n : f[i] = f[j] => i = j}

\* build_cmd_list(buckets): one command per element, in the order the
\* iteration over buckets yields them
build_cmd_list(bucket_list, order, splunk_home) ==
    [i \in 1..Len(bucket_list) |-> exporttool_cmd(splunk_home, bucket_list[order[i]])]

\* scribl.buildCmdList(buckets, args): buckets is a list, iterated in order
buildCmdList(bucket_list) ==
    [i \in 1..Len(bucket_list) |-> exporttoolCmd(bucket_list[i])]

(***************************************************************************)
(* main, up to the command list.                                           *)
(***************************************************************************)
\* buckets = list_full_paths(...): an exception it raises is caught nowhere
\* and ends the process with a traceback (status 1)
MainDiscover ==
    /\ pc = "start"
    /\ lfp' = IF variant = "exporttool"
              THEN list_full_paths(globbed, et_options.earliest,
                                   et_options.latest, et_options.import_buckets)
              ELSE scribl_list_full_paths(globbed, et_options.earliest,
                                          et_options.latest)
    /\ IF lfp'.ok
       THEN /\ buckets' = lfp'.val
            /\ pc' = "check"
            /\ UNCHANGED <<exit_status, main_exc>>
       ELSE /\ pc' = "exited"
            /\ exit_status' = 1
            /\ main_exc' = lfp'.exc
            /\ UNCHANGED buckets
    /\ UNCHANGED <<variant, et_options, globbed, env, cli_commands, answers,
                   tasks, fsys>>

\* the variant of the sanity check that lets an empty window through
WindowOkOrEqual(earliest, latest) == earliest <= latest

\* if et_options["earliest"] < et_options["latest"]
WindowOk(earliest, latest) == earliest < latest

\* the sanity check of the window: else ... exit(1)
MainCheck ==
    /\ pc = "check"
    /\ IF WindowOk(et_options.earliest, et_options.latest)
       THEN /\ pc' = "build"
            /\ UNCHANGED exit_status
       ELSE /\ pc' = "exited"
            /\ exit_status' = 1
    /\ UNCHANGED <<variant, et_options, globbed, env, main_exc, lfp, buckets,
                   cli_commands, answers, tasks, fsys>>

\* cli_commands = build_cmd_list(buckets); exporttool then asks before it
\* goes on, scribl goes straight to the pool
MainBuild ==
    /\ pc = "build"
    /\ \E order \in Orders(Len(buckets)) :
         cli_commands' =
             IF variant = "exporttool"
             THEN build_cmd_list(buckets, order, et_options.splunk_home)
             ELSE buildCmdList(buckets)
    /\ pc' = IF variant = "exporttool" THEN "prompt" ELSE "mkpool"
    /\ UNCHANGED <<variant, et_options, globbed, env, exit_status, main_exc,
                   lfp, buckets, answers, tasks, fsys>>

(***************************************************************************)
(* Configurations.                                                         *)
(***************************************************************************)
Dir_v_i == <<"/", "v", "/", "i", "/">>

Home_s == <<"/", "s">>

OutPath_o == <<"/", "o", "/">>

\* the et_options of a run; scribl has none of the file options and no
\* import list
Options(window, import_buckets, num_streams, sink, only_db) ==
    [directory |-> Dir_v_i, splunk_home |-> Home_s, file_out_path |-> OutPath_o,
     earliest |-> window[1], latest |-> window[2],
     import_buckets |-> import_buckets, num_streams |-> num_streams,
     only_db |-> only_db,
     file_out |-> sink[1], file_out_type |-> sink[2],
     file_out_compress |-> sink[3], tls |-> sink[4],
     check_hostname |-> sink[5]]

\* the sink of et_options.py as shipped: file_out, file_out_type,
\* file_out_compress, tls, check_hostname
DefaultSink == <<FALSE, <<"e", "x", "o">>, TRUE, FALSE, FALSE>>

\* the state main starts in
StartState(v, opts, found, e) ==
    /\ variant = v
    /\ et_options = opts
    /\ globbed = found
    /\ env = e
    /\ pc = "start"
    /\ exit_status = "none"
    /\ main_exc = "none"
    /\ lfp = "none"
    /\ buckets = <<>>
    /\ cli_commands = <<>>
    /\ answers = <<>>
    /\ tasks = <<>>
    /\ fsys = <<>>

(***************************************************************************)
(* Discovery on its own: every list of found files or import lines, every  *)
(* window.                                                                 *)
(***************************************************************************)
DiscInit ==
    \E v \in {"exporttool", "scribl"}, earliest, latest \in 1..MaxTime :
      \E found \in FoundUpTo(FoundCatalog, MaxFiles),
         imported \in ListsUpTo(ImportCatalog, MaxFiles) :
        /\ found = <<>> \/ imported = <<>>
        /\ v = "scribl" =>
             /\ imported = <<>>
             /\ \A i \in 1..Len(found) : found[i] \notin {File_db1_b, File_db9}
        /\ StartState(v, Options(<<earliest, latest>>, imported, 1,
                                 DefaultSink, FALSE),
                      found, [lines |-> {}, budget |-> 0, exits |-> {"zero"}])

\* exporttool with only_db set, on an index that holds a SmartStore bucket
DiscInitOnlyDb ==
    \E latest \in {0, MaxTime} :
      \E found \in FoundUpTo({File_db1_a, File_guid}, MaxFiles) :
        StartState("exporttool", Options(<<0, latest>>, <<>>, 1, DefaultSink, TRUE),
                   found, [lines |-> {}, budget |-> 0, exits |-> {"zero"}])

DiscNext == MainDiscover \/ MainCheck \/ MainBuild

DiscStart == DiscInit \/ DiscInitOnlyDb

DiscSpec == DiscStart /\ [][DiscNext]_vars

(***************************************************************************)
(* record_format and index_name                                            *)
(***************************************************************************)
\* header, set by main
header ==
    <<"\"", "_", "t", "i", "m", "e", "\"", ",", "s", "o", "u", "r", "c",
      "e", ",", "h", "o", "s", "t", ",", "s", "o", "u", "r", "c", "e", "t",
      "y", "p", "e", ",", "\"", "_", "r", "a", "w", "\"", ",", "\"", "_",
      "m", "e", "t", "a", "\"">>

\* "log-cmdline.cfg"
log_cmdline ==
    <<"l", "o", "g", "-", "c", "m", "d", "l", "i", "n", "e", ".", "c", "f",
      "g">>

lit_source ==
    <<"s", "o", "u", "r", "c", "e", ":", ":">>

lit_host ==
    <<"\"", ",", "\"", "h", "o", "s", "t", ":", ":">>

lit_sourcetype ==
    <<"\"", ",", "\"", "s", "o", "u", "r", "c", "e", "t", "y", "p", "e",
      ":", ":">>

lit_quotes ==
    <<"\"", ",", "\"">>

lit_indextime ==
    <<"\"", ",", "\"", "_", "i", "n", "d", "e", "x", "t", "i", "m", "e",
      ":", ":">>

\* the least element of a non-empty set of numbers
Least(S) == CHOOSE x \in S : \A y \in S : x <= y

Greatest(S) == CHOOSE x \in S : \A y \in S : x >= y

\* the first occurrence of lit in s at or after position p, 0 if none
FirstFrom(s, lit, p) ==
    LET occ == {i \in Occurrences(s, lit) : i >= p}
    IN  IF occ = {} THEN 0 ELSE Least(occ)

\* the last literal of the pattern, "_indextime::, looked for after the
\* fourth group
MatchIndextime(s, p, p_host, p_st, p_raw, q_host, q_st, q_raw, q_it) ==
    IF q_it = 0 THEN [ok |-> FALSE]
    ELSE [ok |-> TRUE,
          source |-> SubSeq(s, p, q_host - 1),
          host |-> SubSeq(s, p_host, q_st - 1),
          sourcetype |-> SubSeq(s, p_st, q_raw - 1),
          raw |-> SubSeq(s, p_raw, q_it - 1)]

\* the literal "," that ends the third group
MatchQuotes(s, p, p_host, p_st, q_host, q_st, q_raw) ==
    IF q_raw = 0 THEN [ok |-> FALSE]
    ELSE MatchIndextime(s, p, p_host, p_st, q_raw + Len(lit_quotes),
                        q_host, q_st, q_raw,
                        FirstFrom(s, lit_indextime, q_raw + Len(lit_quotes)))

\* the literal ","sourcetype:: that ends the second group
MatchSourcetype(s, p, p_host, q_host, q_st) ==
    IF q_st = 0 THEN [ok |-> FALSE]
    ELSE MatchQuotes(s, p, p_host, q_st + Len(lit_sourcetype), q_host, q_st,
                     FirstFrom(s, lit_quotes, q_st + Len(lit_sourcetype)))

\* the literal ","host:: that ends the first group
MatchHost(s, p, q_host) ==
    IF q_host = 0 THEN [ok |-> FALSE]
    ELSE MatchSourcetype(s, p, q_host + Len(lit_host), q_host,
                         FirstFrom(s, lit_sourcetype, q_host + Len(lit_host)))

\* the part of the pattern after "source::", matched from position p on:
\*   (.*?)","host::(.*?)","sourcetype::(.*?)","(.*?)","_indextime::
\* Under re.DOTALL every lazy group ends at the first later occurrence of
\* the literal that follows it: if that fails, no longer group succeeds.
MatchFields(s, p) == MatchHost(s, p, FirstFrom(s, lit_host, p))

\* the length of the run of digits of s that starts at position i
DigitRun(s, i) ==
    LET stops == {j \in i..Len(s) : s[j] \notin Digits}
    IN  IF stops = {} THEN Len(s) - i + 1 ELSE Least(stops) - i

\* the match of the pattern that starts at i with d digits, the two
\* characters after the digits being any
MatchAt(cur_rec, i, d) ==
    IF /\ i + d + 1 + Len(lit_source) <= Len(cur_rec)
       /\ SubSeq(cur_rec, i + d + 2, i + d + 1 + Len(lit_source)) = lit_source
    THEN MatchFields(cur_rec, i + d + 2 + Len(lit_source))
    ELSE [ok |-> FALSE]

\* where the pattern matches: ^ matches at the start of every line
\* (re.MULTILINE), \d+ takes one digit or more
Matches(cur_rec) ==
    {m \in {i \in 1..Len(cur_rec) : i = 1 \/ cur_rec[i - 1] = "\n"}
             \X (1..Len(cur_rec)) :
        m[2] <= DigitRun(cur_rec, m[1]) /\ MatchAt(cur_rec, m[1], m[2]).ok}

\* the match re.search returns: the leftmost start, and at it the longest
\* run of digits that lets the rest match
FirstMatch(found) ==
    CHOOSE m \in found : \A n \in found :
        m[1] < n[1] \/ (m[1] = n[1] /\ m[2] >= n[2])

\* the groups of the match m, f being its fields
Groups(cur_rec, m, f) ==
    [ok |-> TRUE, time |-> SubSeq(cur_rec, m[1], m[1] + m[2] - 1),
     source |-> f.source, host |-> f.host,
     sourcetype |-> f.sourcetype, raw |-> f.raw]

GroupsOf(cur_rec, m) == Groups(cur_rec, m, MatchAt(cur_rec, m[1], m[2]))

SearchResult(cur_rec, found) ==
    IF found = {} THEN [ok |-> FALSE] ELSE GroupsOf(cur_rec, FirstMatch(found))

\* re.search(r"^(\d+)..source::(.*?)\",\"host::(.*?)\",\"sourcetype::(.*?)\",
\* \"(.*?)\",\"_indextime::", cur_rec, re.DOTALL | re.MULTILINE): the
\* groups, or no match
record_split(cur_rec) == SearchResult(cur_rec, Matches(cur_rec))

\* index_name(path): the second-to-last non-empty part of the path, None when
\* there are fewer than two
index_name(path) ==
    LET parts == Split(path, Slash)
        path_parts == SelectSeq(parts, LAMBDA part : part # <<>>)
    IN  IF Len(path_parts) < 2 THEN "None"
        ELSE path_parts[Len(path_parts) - 1]

RECURSIVE JsonEscape(_)
\* the escapes of json.dumps for the characters the model uses
JsonEscape(s) ==
    IF s = <<>> THEN <<>>
    ELSE (CASE Head(s) = "\"" -> <<"\\", "\"">>
            [] Head(s) = "\\" -> <<"\\", "\\">>
            [] Head(s) = "\n" -> <<"\\", "n">>
            [] Head(s) = "\t" -> <<"\\", "t">>
            [] OTHER -> <<Head(s)>>) \o JsonEscape(Tail(s))

\* a value of the dictionary as json.dumps writes it: a string, or None
JsonValue(v) ==
    IF v = "None" THEN <<"n", "u", "l", "l">>
    ELSE <<"\"">> \o JsonEscape(v) \o <<"\"">>

\* "key": value
JsonItem(key, v) == <<"\"">> \o key \o <<"\"", ":", " ">> \o JsonValue(v)

\* json.dumps(dict_record): the keys in the order they were set
json_dumps(d) ==
    <<"{">>
    \o JsonItem(<<"t", "i", "m", "e">>, d.time) \o <<",", " ">>
    \o JsonItem(<<"s", "o", "u", "r", "c", "e">>, d.source) \o <<",", " ">>
    \o JsonItem(<<"h", "o", "s", "t">>, d.host) \o <<",", " ">>
    \o JsonItem(<<"s", "o", "u", "r", "c", "e", "t", "y", "p", "e">>, d.sourcetype)
    \o <<",", " ">>
    \o JsonItem(<<"r", "a", "w">>, d.raw) \o <<",", " ">>
    \o JsonItem(<<"i", "n", "d", "e", "x">>, d.index)
    \o <<"}">>

\* dict_record and json.dumps(dict_record) + "\n", m being the groups
json_record(m, index) ==
    json_dumps([time |-> m.time, source |-> m.source, host |-> m.host,
                sourcetype |-> m.sourcetype, raw |-> m.raw, index |-> index])
    \o <<"\n">>

\* the body of record_format, m being the result of the search. When the
\* pattern does not match, record_split is None: the AttributeError of
\* record_split.group(1) is caught and printed, json_record was never
\* assigned, and "return json_record + ..." raises UnboundLocalError.
format(m, directory) ==
    IF m.ok THEN [ok |-> TRUE, val |-> json_record(m, index_name(directory))]
    ELSE [ok |-> FALSE, exc |-> "UnboundLocalError"]

\* record_format(cur_rec), directory being et_options["directory"]
record_format(cur_rec, directory) == format(record_split(cur_rec), directory)

(***************************************************************************)
(* The lines an extraction subprocess may print.                           *)
(***************************************************************************)
\* the header line of the -csv output
Line_header ==
    <<"\"", "_", "t", "i", "m", "e", "\"", ",", "s", "o", "u", "r", "c",
      "e", ",", "h", "o", "s", "t", ",", "s", "o", "u", "r", "c", "e", "t",
      "y", "p", "e", ",", "\"", "_", "r", "a", "w", "\"", ",", "\"", "_",
      "m", "e", "t", "a", "\"", "\n">>

\* a diagnostic line of the extraction program
Line_diag ==
    <<"l", "o", "g", "-", "c", "m", "d", "l", "i", "n", "e", ".", "c", "f",
      "g", "\n">>

\* a whole record on one line
Line_rec_a ==
    <<"1", "0", "0", "0", "0", "0", "0", "0", "0", "0", ",", "\"", "s",
      "o", "u", "r", "c", "e", ":", ":", "s", "\"", ",", "\"", "h", "o",
      "s", "t", ":", ":", "h", "\"", ",", "\"", "s", "o", "u", "r", "c",
      "e", "t", "y", "p", "e", ":", ":", "t", "\"", ",", "\"", "a", "\"",
      ",", "\"", "_", "i", "n", "d", "e", "x", "t", "i", "m", "e", ":",
      ":", "1", "\"", "\n">>

\* the first line of a record whose raw payload spans two lines
Line_rec_b1 ==
    <<"1", "0", "0", "0", "0", "0", "0", "0", "0", "1", ",", "\"", "s",
      "o", "u", "r", "c", "e", ":", ":", "s", "\"", ",", "\"", "h", "o",
      "s", "t", ":", ":", "h", "\"", ",", "\"", "s", "o", "u", "r", "c",
      "e", "t", "y", "p", "e", ":", ":", "t", "\"", ",", "\"", "b", "\n">>

\* the last line of such a record
Line_rec_b2 ==
    <<"c", "\"", ",", "\"", "_", "i", "n", "d", "e", "x", "t", "i", "m",
      "e", ":", ":", "2", "\"", "\n">>

\* a line with the 10-digit prefix and none of the fields
Line_bad ==
    <<"1", "0", "0", "0", "0", "0", "0", "0", "0", "2", ",", "b", "a", "d",
      "\n">>

\* a line that is no part of any record (stderr is merged into stdout)
Line_junk ==
    <<"s", "h", ":", " ", "n", "o", "t", " ", "f", "o", "u", "n", "d", "\n">>

\* a payload line that quotes the header
Line_quotes_header ==
    <<"x", "\"", "_", "t", "i", "m", "e", "\"", ",", "s", "o", "u", "r",
      "c", "e", ",", "h", "o", "s", "t", ",", "s", "o", "u", "r", "c", "e",
      "t", "y", "p", "e", ",", "\"", "_", "r", "a", "w", "\"", ",", "\"",
      "_", "m", "e", "t", "a", "\"", "\n">>

\* a line with fewer than ten characters before the comma
Line_short ==
    <<"1", "2", "3", ",", "\"", "s", "o", "u", "r", "c", "e", ":", ":",
      "s", "\"", ",", "\"", "h", "o", "s", "t", ":", ":", "h", "\"", ",",
      "\"", "s", "o", "u", "r", "c", "e", "t", "y", "p", "e", ":", ":",
      "t", "\"", ",", "\"", "z", "\"", ",", "\"", "_", "i", "n", "d", "e",
      "x", "t", "i", "m", "e", ":", ":", "3", "\"", "\n">>

LineCatalog ==
    {Line_header,
     Line_short,
     Line_diag,
     Line_rec_a,
     Line_rec_b1,
     Line_rec_b2,
     Line_bad,
     Line_junk,
     Line_quotes_header}

(***************************************************************************)
(* Exceptions and the handlers of the task functions.                      *)
(***************************************************************************)
\* the classes an exception of the model is an instance of
Bases(exc) ==
    CASE exc = "UnicodeDecodeError" -> {"UnicodeDecodeError", "ValueError", "Exception"}
      [] exc = "UnboundLocalError" -> {"UnboundLocalError", "NameError", "Exception"}
      [] OTHER -> {exc, "Exception"}

\* seo_file_output: except Exception
SeoCatches(exc) == "Exception" \in Bases(exc)

\* exo_file_output, around Popen and the loop: except Exception
ExoInnerCatches(exc) == "Exception" \in Bases(exc)

\* the variant of a handler that catches only the errors of the system
CatchesOSErrorOnly(exc) == "OSError" \in Bases(exc)

\* exo_file_output, around the with statement: except Exception
ExoOuterCatches(exc) == "Exception" \in Bases(exc)

\* net_output: except socket.error (OSError), then except Exception;
\* the message printed, "none" when the exception is not caught
NetCatches(exc) ==
    IF "OSError" \in Bases(exc) THEN "Error sending data over the socket"
    ELSE IF "Exception" \in Bases(exc) THEN "Error running process"
    ELSE "none"

(***************************************************************************)
(* The reassembly loop of exo_file_output and net_output.                  *)
(***************************************************************************)
\* the variant of the test that discards only a line equal to the header
DiscardedIfEqual(line) ==
    \/ line = header \o <<"\n">>
    \/ Contains(line, log_cmdline)

\* if header in line or "log-cmdline.cfg" in line: continue
Discarded(line) == Contains(line, header) \/ Contains(line, log_cmdline)

\* line[0:10].isdigit()
StartsRecord(line) ==
    IsDigit(SubSeq(line, 1, IF Len(line) < 10 THEN Len(line) ELSE 10))

\* one iteration of "for line in process.stdout": whether the buffer is
\* finalized (written through record_format) first, and the buffer after it
LoopBody(current_rec, line) ==
    IF Discarded(line) THEN [finalize |-> FALSE, current_rec |-> current_rec]
    ELSE IF StartsRecord(line)
         THEN [finalize |-> current_rec # <<>>, current_rec |-> line]
    ELSE [finalize |-> FALSE, current_rec |-> current_rec \o line]

(***************************************************************************)
(* run_cmd_send_data and the pool.                                         *)
(***************************************************************************)
seo == <<"s", "e", "o">>

exo == <<"e", "x", "o">>

RECURSIVE JoinWords(_)
\* " ".join(words)
JoinWords(words) ==
    IF words = <<>> THEN <<>>
    ELSE IF Len(words) = 1 THEN words[1]
    ELSE words[1] \o <<" ">> \o JoinWords(Tail(words))

\* a command of cli_commands, not yet taken by a worker
QueuedTask(command) ==
    [pc |-> "queued", worker |-> 0, starts |-> 0, fn |-> "none",
     command |-> command, file_out_name |-> <<>>,
     stream |-> <<>>, nread |-> 0, current_rec |-> <<>>,
     finalized |-> <<>>, written |-> <<>>,
     sock |-> "none", secure_sock |-> "none", process |-> "none",
     file |-> "none", closed |-> <<>>, child_exit |-> "none",
     printed |-> <<>>, faults |-> {}, exc |-> "none"]

Finished(task) == task.pc \in {"returned", "raised"}

InProgress(task) == task.pc \notin {"queued", "returned", "raised"}

\* the variant of the pool that hands a task to a worker that is busy
WorkerIdleAlways(w) == TRUE

\* worker w of the pool runs no task
WorkerIdle(w) ==
    \A t \in DOMAIN tasks : tasks[t].worker = w => ~InProgress(tasks[t])

\* the head of the pool's task queue: the first command not yet taken
NextTask ==
    LET queued == {t \in DOMAIN tasks : tasks[t].pc = "queued"}
    IN  IF queued = {} THEN 0 ELSE Least(queued)

\* command.split()[3], the bucket of the command
CommandBucket(command) ==
    LET words == Words(command)
    IN  IF Len(words) >= 4 THEN [ok |-> TRUE, val |-> words[4]]
        ELSE [ok |-> FALSE, exc |-> "IndexError"]

\* file_out_path + command.split()[3].split("/")[-1] + suffix
FileOutName(file_out_path, command, suffix) ==
    file_out_path
    \o FromEnd(Split(CommandBucket(command).val, Slash), 1).val
    \o suffix

\* the head of run_cmd_send_data(command): which output function runs, with
\* which command and file name
Dispatch(task, w) ==
    LET words == Words(task.command)
        begun == [task EXCEPT !.worker = w, !.starts = @ + 1]
    IN  IF variant = "scribl" THEN [begun EXCEPT !.fn = "runCmd", !.pc = "rc_popen"]
        ELSE IF ~et_options.file_out
             THEN [begun EXCEPT !.fn = "net", !.pc = "net_socket"]
        ELSE IF et_options.file_out_type = seo
             THEN LET name == FileOutName(et_options.file_out_path, task.command, <<".", "c", "s", "v">>)
                  IN  [begun EXCEPT !.fn = "seo", !.pc = "popen",
                         !.file_out_name = name,
                         !.command = JoinWords([words EXCEPT ![5] = name])]
        ELSE IF et_options.file_out_type = exo
             THEN [begun EXCEPT !.fn = "exo", !.pc = "exo_open",
                     !.file_out_name =
                         FileOutName(et_options.file_out_path, task.command, <<".", "j", "s", "o", "n">>),
                     !.command = JoinWords(words)]
        ELSE [begun EXCEPT !.pc = "log"]

\* everything but the tasks and the files
MainVars ==
    <<variant, et_options, globbed, env, pc, exit_status, main_exc, lfp,
      buckets, cli_commands, answers>>

\* a worker of the pool takes the next command and calls run_cmd_send_data
\* (scribl: runCmd) on it
TaskStart(w) ==
    /\ pc = "pool"
    /\ w \in 1..et_options.num_streams
    /\ WorkerIdle(w)
    /\ NextTask # 0
    /\ tasks' = [tasks EXCEPT ![NextTask] = Dispatch(@, w)]
    /\ UNCHANGED <<MainVars, fsys>>

\* the variant of the handlers after which a task whose connect failed goes
\* on to start its child
NetRaiseGoesOn(task, exc, fault) ==
    [task EXCEPT !.pc = IF "connect" \in fault THEN "popen" ELSE "net_finally",
                 !.faults = @ \cup fault,
                 !.printed = Append(@, NetCatches(exc))]

\* an exception raised in net_output's try: the handler that catches it
\* prints, and the finally clause runs in any case
NetRaise(task, exc, fault) ==
    IF NetCatches(exc) # "none"
    THEN [task EXCEPT !.pc = "net_finally", !.faults = @ \cup fault,
                      !.printed = Append(@, NetCatches(exc))]
    ELSE [task EXCEPT !.pc = "net_finally", !.faults = @ \cup fault, !.exc = exc]

\* an exception raised inside exo_file_output's with block: the inner
\* handler prints it; the file is closed on the way out in any case
ExoRaise(task, exc, fault) ==
    IF ExoInnerCatches(exc)
    THEN [task EXCEPT !.pc = "exo_close", !.faults = @ \cup fault,
                      !.printed = Append(@, "Error running process")]
    ELSE [task EXCEPT !.pc = "exo_close", !.faults = @ \cup fault, !.exc = exc]

\* an exception raised in exo_file_output outside the inner try
ExoOuterRaise(task, exc, fault) ==
    IF ExoOuterCatches(exc)
    THEN [task EXCEPT !.pc = "log", !.faults = @ \cup fault, !.exc = "none",
                      !.printed = Append(@, "Error opening file")]
    ELSE [task EXCEPT !.pc = "raised", !.faults = @ \cup fault, !.exc = exc]

\* an exception raised in seo_file_output's try
SeoRaise(task, exc, fault) ==
    IF SeoCatches(exc)
    THEN [task EXCEPT !.pc = "log", !.faults = @ \cup fault,
                      !.printed = Append(@, "Error running process")]
    ELSE [task EXCEPT !.pc = "raised", !.faults = @ \cup fault, !.exc = exc]

\* an exception raised under Popen or the loop, by the function that runs
Raise(task, exc, fault) ==
    CASE task.fn = "net" -> NetRaise(task, exc, fault)
      [] task.fn = "exo" -> ExoRaise(task, exc, fault)
      [] OTHER -> SeoRaise(task, exc, fault)

\* open_func(**open_args): gzip.open takes filename; the built-in open has
\* no parameter of that name and raises TypeError
open_func(file_out_compress) ==
    IF file_out_compress THEN [ok |-> TRUE]
    ELSE [ok |-> FALSE, exc |-> "TypeError"]

\* exo_file_output up to "with open_func(**open_args) as exo_file": the file
\* is created or truncated, unless the system refuses
ExoOpen(t) ==
    /\ pc = "pool"
    /\ t \in DOMAIN tasks
    /\ tasks[t].pc = "exo_open"
    /\ LET name == IF et_options.file_out_compress
                   THEN tasks[t].file_out_name \o <<".", "g", "z">>
                   ELSE tasks[t].file_out_name
           task == [tasks[t] EXCEPT !.file_out_name = name]
       IN  \E opens \in BOOLEAN :
             IF ~open_func(et_options.file_out_compress).ok
             THEN /\ tasks' = [tasks EXCEPT ![t] =
                        ExoOuterRaise(task, open_func(et_options.file_out_compress).exc, {})]
                  /\ UNCHANGED fsys
             ELSE IF opens
             THEN /\ tasks' = [tasks EXCEPT ![t] =
                        [task EXCEPT !.pc = "popen", !.file = "open"]]
                  /\ fsys' = [n \in DOMAIN fsys \cup {name} |->
                                IF n = name THEN <<>> ELSE fsys[n]]
             ELSE /\ tasks' = [tasks EXCEPT ![t] =
                        ExoOuterRaise(task, "OSError", {"open"})]
                  /\ UNCHANGED fsys
    /\ UNCHANGED MainVars

\* process = Popen(command, shell=True, stdout=PIPE, stderr=STDOUT, ...):
\* the child starts and will print some lines, or the system refuses
Popen(t) ==
    /\ pc = "pool"
    /\ t \in DOMAIN tasks
    /\ tasks[t].pc = "popen"
    /\ \E starts \in BOOLEAN :
         IF starts
         THEN \E stream \in ListsUpTo(env.lines, env.budget) :
                tasks' = [tasks EXCEPT ![t] =
                    [@ EXCEPT !.process = "running", !.stream = stream,
                              !.pc = IF @ = "popen" /\ tasks[t].fn = "seo"
                                     THEN "wait" ELSE "loop"]]
         ELSE tasks' = [tasks EXCEPT ![t] = Raise(@, "OSError", {"popen"})]
    /\ UNCHANGED <<MainVars, fsys>>

\* the statuses the extraction program may exit with
ExitStatuses == env.exits

\* stdout=PIPE, stderr=STDOUT and no read of process.stdout: what the child
\* prints stays in the pipe, and the child exits only if the pipe holds all
\* of it, its next write blocking otherwise
ChildCanExit(task) == Len(task.stream) <= PipeCapacity

\* seo_file_output: process.wait() returns when the child has exited; the
\* status wait returns is dropped
SeoWait(t) ==
    /\ pc = "pool"
    /\ t \in DOMAIN tasks
    /\ tasks[t].pc = "wait"
    /\ ChildCanExit(tasks[t])
    /\ \E status \in ExitStatuses :
         tasks' = [tasks EXCEPT ![t] =
             [@ EXCEPT !.process = "exited", !.child_exit = status, !.pc = "log"]]
    /\ UNCHANGED <<MainVars, fsys>>

\* what the sink may do with one record: the file write succeeds or fails;
\* send transmits all bytes, a part of them, or fails
SinkOutcomes(task) ==
    IF task.fn = "net" THEN {"all", "part", "fail"} ELSE {"all", "fail"}

\* the variant of the write that hands a record to the sink a second time
WriteTwice(passed, rec, next, outcome) ==
    IF ~rec.ok
    THEN Raise([passed EXCEPT !.printed = Append(@, "result is None")],
               rec.exc, {})
    ELSE IF outcome = "fail" THEN Raise(passed, "OSError", {"write"})
    ELSE [passed EXCEPT !.current_rec = next,
                        !.written = Append(Append(@, rec.val), rec.val)]

\* the write of one formatted buffer: rec is what record_format returned or
\* raised, passed the task once the buffer has been handed to it, next the
\* buffer the loop goes on with
Write(passed, rec, next, outcome) ==
    IF ~rec.ok
    THEN Raise([passed EXCEPT !.printed = Append(@, "result is None")],
               rec.exc, {})
    ELSE IF outcome = "fail" THEN Raise(passed, "OSError", {"write"})
    ELSE IF outcome = "part"
         THEN [passed EXCEPT !.current_rec = next, !.faults = @ \cup {"part"},
                 !.written = Append(@, SubSeq(rec.val, 1, Len(rec.val) \div 2))]
    ELSE [passed EXCEPT !.current_rec = next, !.written = Append(@, rec.val)]

\* exo_file.write(record_format(current_rec)) /
\* net_connect.send(record_format(current_rec).encode("utf-8"))
Emit(task, next, outcome) ==
    Write([task EXCEPT !.finalized = Append(@, task.current_rec)],
          record_format(task.current_rec, et_options.directory), next, outcome)

\* what a task has written to its file goes to the file
FileAfter(task, after) ==
    IF task.fn = "exo" /\ Len(after.written) > Len(task.written)
    THEN [fsys EXCEPT ![task.file_out_name] = Append(@, after.written[Len(after.written)])]
    ELSE fsys

\* the task and the files after a step of task t
Step(t, task, after) ==
    /\ tasks' = [tasks EXCEPT ![t] = after]
    /\ fsys' = FileAfter(task, after)

\* the task after the line has been read: it could not be decoded, or it
\* is handled as body says, body being LoopBody of the buffer and the line
Handle(task, body, decodes, outcome) ==
    IF ~decodes THEN Raise(task, "UnicodeDecodeError", {"decode"})
    ELSE IF body.finalize THEN Emit(task, body.current_rec, outcome)
    ELSE [task EXCEPT !.current_rec = body.current_rec]

\* the task when it has read its next line
Read(task) == [task EXCEPT !.nread = @ + 1]

\* one iteration of "for line in process.stdout": the next line of the child
\* is read (or cannot be decoded) and handled
LoopLine(t) ==
    /\ pc = "pool"
    /\ t \in DOMAIN tasks
    /\ tasks[t].pc = "loop"
    /\ tasks[t].nread < Len(tasks[t].stream)
    /\ \E decodes \in BOOLEAN, outcome \in SinkOutcomes(tasks[t]) :
         Step(t, tasks[t],
              Handle(Read(tasks[t]),
                     LoopBody(tasks[t].current_rec,
                              tasks[t].stream[tasks[t].nread + 1]),
                     decodes, outcome))
    /\ UNCHANGED MainVars

\* the task when the loop is left without an exception, the child having
\* closed its output and exited with status
Left(task, status) ==
    [task EXCEPT !.pc = IF task.fn = "net" THEN "net_finally" ELSE "exo_close",
                 !.child_exit = status]

\* if current_rec: write it
Flush(task, outcome) ==
    IF task.current_rec # <<>> THEN Emit(task, task.current_rec, outcome)
    ELSE task

\* the child has closed its output: if current_rec: write it; then the with
\* block (exo) or the try block (net) is left
LoopEnd(t) ==
    /\ pc = "pool"
    /\ t \in DOMAIN tasks
    /\ tasks[t].pc = "loop"
    /\ tasks[t].nread = Len(tasks[t].stream)
    /\ \E outcome \in SinkOutcomes(tasks[t]), status \in ExitStatuses :
         Step(t, tasks[t], Flush(Left(tasks[t], status), outcome))
    /\ UNCHANGED MainVars

\* the with statement is left: exo_file is closed (the write of what is
\* still buffered may fail); an exception the inner handler did not catch
\* goes on to the outer one
ExoClose(t) ==
    /\ pc = "pool"
    /\ t \in DOMAIN tasks
    /\ tasks[t].pc = "exo_close"
    /\ \E closes \in BOOLEAN :
         LET task == [tasks[t] EXCEPT !.file = "closed",
                                      !.closed = Append(@, "exo_file")]
         IN  tasks' = [tasks EXCEPT ![t] =
                 IF ~closes THEN ExoOuterRaise(task, "OSError", {"close"})
                 ELSE IF task.exc # "none" THEN ExoOuterRaise(task, task.exc, {})
                 ELSE [task EXCEPT !.pc = "log"]]
    /\ UNCHANGED <<MainVars, fsys>>

\* sock = socket.socket(socket.AF_INET, socket.SOCK_STREAM)
NetSocket(t) ==
    /\ pc = "pool"
    /\ t \in DOMAIN tasks
    /\ tasks[t].pc = "net_socket"
    /\ \E made \in BOOLEAN :
         tasks' = [tasks EXCEPT ![t] =
             IF made
             THEN [@ EXCEPT !.sock = "open",
                            !.pc = IF et_options.tls THEN "net_tls" ELSE "net_connect"]
             ELSE NetRaise(@, "OSError", {"socket"})]
    /\ UNCHANGED <<MainVars, fsys>>

\* ssl.create_default_context(): hostname checking on, certificates required
create_default_context == [check_hostname |-> TRUE, verify_mode |-> "CERT_REQUIRED"]

\* context.verify_mode = mode: ssl refuses CERT_NONE while check_hostname is
\* enabled
set_verify_mode(context, mode) ==
    IF mode = "CERT_NONE" /\ context.check_hostname
    THEN [ok |-> FALSE, exc |-> "ValueError"]
    ELSE [ok |-> TRUE, context |-> [context EXCEPT !.verify_mode = mode]]

\* context = ssl.create_default_context(); context.verify_mode =
\* ssl.CERT_NONE; context.check_hostname = False: the context the socket is
\* wrapped with, or the exception raised on the way
TlsContext ==
    IF set_verify_mode(create_default_context, "CERT_NONE").ok
    THEN [ok |-> TRUE,
          context |-> [set_verify_mode(create_default_context, "CERT_NONE").context
                         EXCEPT !.check_hostname = FALSE]]
    ELSE set_verify_mode(create_default_context, "CERT_NONE")

\* if use_tls: the context is made and set up, and the socket is wrapped
NetTls(t) ==
    /\ pc = "pool"
    /\ t \in DOMAIN tasks
    /\ tasks[t].pc = "net_tls"
    /\ tasks' = [tasks EXCEPT ![t] =
           IF TlsContext.ok
           THEN [@ EXCEPT !.secure_sock = "open", !.pc = "net_connect"]
           ELSE NetRaise(@, TlsContext.exc, {})]
    /\ UNCHANGED <<MainVars, fsys>>

\* secure_sock.connect / sock.connect((dest_host, dest_port))
NetConnect(t) ==
    /\ pc = "pool"
    /\ t \in DOMAIN tasks
    /\ tasks[t].pc = "net_connect"
    /\ \E connects \in BOOLEAN :
         tasks' = [tasks EXCEPT ![t] =
             IF ~connects THEN NetRaise(@, "OSError", {"connect"})
             ELSE IF @.secure_sock # "none"
                  THEN [@ EXCEPT !.secure_sock = "connected", !.pc = "popen"]
             ELSE [@ EXCEPT !.sock = "connected", !.pc = "popen"]]
    /\ UNCHANGED <<MainVars, fsys>>

\* the variant of the clause that closes a socket only once it is connected
SocketToCloseIfConnected(task) ==
    IF task.secure_sock = "connected" THEN "secure_sock"
    ELSE IF task.sock = "connected" THEN "sock"
    ELSE "none"

\* if secure_sock: secure_sock.close() elif sock: sock.close()
SocketToClose(task) ==
    IF task.secure_sock # "none" THEN "secure_sock"
    ELSE IF task.sock # "none" THEN "sock"
    ELSE "none"

\* the close calls of the finally clause, in order
CloseCalls(task) ==
    (IF task.process # "none" THEN <<"stdout">> ELSE <<>>)
    \o (IF SocketToClose(task) # "none" THEN <<SocketToClose(task)>> ELSE <<>>)

\* finally: if process: process.stdout.close(); if secure_sock:
\* secure_sock.close() elif sock: sock.close()
Finally(task) ==
    [task EXCEPT !.process = IF @ = "none" THEN "none" ELSE "stdout_closed",
                 !.secure_sock = IF SocketToClose(task) = "secure_sock"
                                 THEN "closed" ELSE @,
                 !.sock = IF SocketToClose(task) = "sock" THEN "closed" ELSE @,
                 !.closed = @ \o CloseCalls(task),
                 !.pc = IF task.exc = "none" THEN "log" ELSE "raised"]

\* the finally clause of net_output runs; what the handlers did not catch
\* goes on to the caller
NetFinally(t) ==
    /\ pc = "pool"
    /\ t \in DOMAIN tasks
    /\ tasks[t].pc = "net_finally"
    /\ tasks' = [tasks EXCEPT ![t] = Finally(@)]
    /\ UNCHANGED <<MainVars, fsys>>

\* the end of run_cmd_send_data: the time taken is logged and printed
TaskLog(t) ==
    /\ pc = "pool"
    /\ t \in DOMAIN tasks
    /\ tasks[t].pc = "log"
    /\ tasks' = [tasks EXCEPT ![t] =
           IF CommandBucket(@.command).ok THEN [@ EXCEPT !.pc = "returned"]
           ELSE [@ EXCEPT !.pc = "raised", !.exc = "IndexError"]]
    /\ UNCHANGED <<MainVars, fsys>>

\* scribl.runCmd: p = subprocess.Popen(cmd, shell=True, ..., stderr=PIPE),
\* in no try block
RunCmdPopen(t) ==
    /\ pc = "pool"
    /\ t \in DOMAIN tasks
    /\ tasks[t].pc = "rc_popen"
    /\ \E starts \in BOOLEAN :
         tasks' = [tasks EXCEPT ![t] =
             IF starts THEN [@ EXCEPT !.process = "running", !.pc = "rc_read"]
             ELSE [@ EXCEPT !.pc = "raised", !.exc = "OSError", !.faults = {"popen"}]]
    /\ UNCHANGED <<MainVars, fsys>>

\* scribl.runCmd: stderr is copied until the child has exited, then the
\* time taken is logged
RunCmdRead(t) ==
    /\ pc = "pool"
    /\ t \in DOMAIN tasks
    /\ tasks[t].pc = "rc_read"
    /\ \E status \in ExitStatuses :
         tasks' = [tasks EXCEPT ![t] =
             [@ EXCEPT !.process = "exited", !.child_exit = status, !.pc = "returned"]]
    /\ UNCHANGED <<MainVars, fsys>>

(***************************************************************************)
(* main, from the prompt on.                                               *)
(***************************************************************************)
\* str.lower() on the answers of the model
Lower(s) == [i \in 1..Len(s) |-> IF s[i] = "Y" THEN "y" ELSE s[i]]

\* the variant of the test that goes on unless the answer is n
GoesOnUnlessNo(continue_prompt) == Lower(continue_prompt) # <<"n">>

\* if continue_prompt.lower() == "y"
GoesOn(continue_prompt) == Lower(continue_prompt) = <<"y">>

\* continue_prompt = input(...): go on to the pool, or quit()
MainPrompt ==
    /\ pc = "prompt"
    /\ \E continue_prompt \in {<<"y">>, <<"Y">>, <<"n">>, <<"y", "e", "s">>, <<>>} :
         /\ answers' = <<Lower(continue_prompt)>>
         /\ IF GoesOn(continue_prompt)
            THEN /\ pc' = "mkpool"
                 /\ UNCHANGED exit_status
            ELSE /\ pc' = "exited"
                 /\ exit_status' = 0
    /\ UNCHANGED <<variant, et_options, globbed, env, main_exc, lfp, buckets,
                   cli_commands, tasks, fsys>>

\* with Pool(num_streams) as pyool: pyool.map(run_cmd_send_data,
\* cli_commands) begins: Pool refuses fewer than one process; the commands
\* are queued in order (map hands them out one by one while there are at
\* most four per process)
MainPool ==
    /\ pc = "mkpool"
    /\ IF et_options.num_streams < 1
       THEN /\ pc' = "exited"
            /\ exit_status' = 1
            /\ main_exc' = "ValueError"
            /\ UNCHANGED tasks
       ELSE /\ pc' = "pool"
            /\ tasks' = [i \in 1..Len(cli_commands) |-> QueuedTask(cli_commands[i])]
            /\ UNCHANGED <<exit_status, main_exc>>
    /\ UNCHANGED <<variant, et_options, globbed, env, lfp, buckets,
                   cli_commands, answers, fsys>>

\* map returns when every command has been run; it raises in main what a
\* call raised. Then the completion is logged and printed and main returns.
PoolJoin ==
    /\ pc = "pool"
    /\ \A t \in DOMAIN tasks : Finished(tasks[t])
    /\ IF \E t \in DOMAIN tasks : tasks[t].pc = "raised"
       THEN /\ pc' = "exited"
            /\ exit_status' = 1
            /\ main_exc' =
                 tasks[Least({t \in DOMAIN tasks : tasks[t].pc = "raised"})].exc
       ELSE /\ pc' = "done"
            /\ exit_status' = 0
            /\ UNCHANGED main_exc
    /\ UNCHANGED <<variant, et_options, globbed, env, lfp, buckets,
                   cli_commands, answers, tasks, fsys>>

(***************************************************************************)
(* Whole runs: a few found files, every sink, every pool size.             *)
(***************************************************************************)
\* file_out, file_out_type, file_out_compress, tls, check_hostname
RunSinks ==
    {DefaultSink, <<FALSE, exo, TRUE, TRUE, FALSE>>,
     <<FALSE, exo, TRUE, TRUE, TRUE>>,
     <<TRUE, seo, TRUE, FALSE, FALSE>>, <<TRUE, exo, TRUE, FALSE, FALSE>>,
     <<TRUE, exo, FALSE, FALSE, FALSE>>, <<TRUE, <<"x">>, TRUE, FALSE, FALSE>>}

Init ==
    \E v \in {"exporttool", "scribl"},
       window \in {0, 3, MaxTime} \X {0, 3, MaxTime},
       num_streams \in 0..MaxStreams, sink \in RunSinks :
      \E found \in FoundUpTo({File_db1_a, File_db9, File_bad_max}, MaxFiles),
         imported \in {<<>>, <<File_other_index>>} :
        /\ found = <<>> \/ imported = <<>>
        /\ v = "scribl" => imported = <<>> /\ sink = DefaultSink
        /\ StartState(v, Options(window, imported, num_streams, sink, FALSE), found,
                      [lines |-> {Line_rec_a, Line_bad}, budget |-> 1, exits |-> {"zero"}])

Next ==
    \/ MainDiscover
    \/ MainCheck
    \/ MainBuild
    \/ MainPrompt
    \/ MainPool
    \/ \E w \in 1..MaxStreams : TaskStart(w)
    \/ \E t \in 1..MaxFiles : ExoOpen(t)
    \/ \E t \in 1..MaxFiles : Popen(t)
    \/ \E t \in 1..MaxFiles : SeoWait(t)
    \/ \E t \in 1..MaxFiles : LoopLine(t)
    \/ \E t \in 1..MaxFiles : LoopEnd(t)
    \/ \E t \in 1..MaxFiles : ExoClose(t)
    \/ \E t \in 1..MaxFiles : NetSocket(t)
    \/ \E t \in 1..MaxFiles : NetTls(t)
    \/ \E t \in 1..MaxFiles : NetConnect(t)
    \/ \E t \in 1..MaxFiles : NetFinally(t)
    \/ \E t \in 1..MaxFiles : TaskLog(t)
    \/ \E t \in 1..MaxFiles : RunCmdPopen(t)
    \/ \E t \in 1..MaxFiles : RunCmdRead(t)
    \/ PoolJoin

Spec == Init /\ [][Next]_vars

(***************************************************************************)
(* One task of exporttool on its own: every stream of lines.               *)
(***************************************************************************)
\* the sinks of a task on its own: the network, a compressed JSON file, or
\* the csv file the child writes
TaskSinks ==
    {DefaultSink, <<TRUE, exo, TRUE, FALSE, FALSE>>,
     <<TRUE, seo, TRUE, FALSE, FALSE>>}

\* the pool has been made for the buckets found
PoolMade(opts, found, cmds, e) ==
    /\ variant = "exporttool"
    /\ et_options = opts
    /\ globbed = found.files
    /\ env = e
    /\ pc = "pool"
    /\ exit_status = "none"
    /\ main_exc = "none"
    /\ lfp = found
    /\ buckets = found.val
    /\ cli_commands = cmds
    /\ answers = <<<<"y">>>>
    /\ tasks = [i \in 1..Len(cmds) |-> QueuedTask(cmds[i])]
    /\ fsys = <<>>

\* a task on its own, the extraction program being e
OneTask(sink, e) ==
    PoolMade(Options(<<0, MaxTime>>, <<>>, 1, sink, FALSE),
             list_full_paths(<<File_db1_a>>, 0, MaxTime, <<>>),
             build_cmd_list(list_full_paths(<<File_db1_a>>, 0, MaxTime, <<>>).val,
                            <<1>>, Home_s),
             e)

\* every stream of lines, the child exiting with status zero
TaskInit ==
    \E sink \in TaskSinks :
        OneTask(sink, [lines |-> LineCatalog, budget |-> MaxLines,
                       exits |-> {"zero"}])

TaskNext ==
    \/ TaskStart(1)
    \/ ExoOpen(1)
    \/ Popen(1)
    \/ SeoWait(1)
    \/ LoopLine(1)
    \/ LoopEnd(1)
    \/ ExoClose(1)
    \/ NetSocket(1)
    \/ NetConnect(1)
    \/ NetFinally(1)
    \/ TaskLog(1)
    \/ PoolJoin

TaskSpec == TaskInit /\ [][TaskNext]_vars

(***************************************************************************)
(* One task on the streams of records, the child exiting with any status.  *)
(***************************************************************************)
\* the lines of records, whole, of two lines, and without the fields
RecordLines == {Line_rec_a, Line_rec_b1, Line_rec_b2, Line_bad}

RecordsInit ==
    \E sink \in TaskSinks :
        OneTask(sink, [lines |-> RecordLines, budget |-> MaxLines,
                       exits |-> {"zero", "nonzero"}])

RecordsSpec == RecordsInit /\ [][TaskNext]_vars

(***************************************************************************)
(* Two tasks that send records over the network, side by side.             *)
(***************************************************************************)
\* two buckets found, two streams, the network sink without and with tls;
\* the children print whole records
NetInit ==
    \E sink \in {DefaultSink, <<FALSE, exo, TRUE, TRUE, FALSE>>} :
        PoolMade(Options(<<0, MaxTime>>, <<>>, 2, sink, FALSE),
                 list_full_paths(<<File_db1_a, File_db9>>, 0, MaxTime, <<>>),
                 build_cmd_list(list_full_paths(<<File_db1_a, File_db9>>, 0,
                                                MaxTime, <<>>).val,
                                <<1, 2>>, Home_s),
                 [lines |-> {Line_rec_a}, budget |-> MaxLines - 1,
                  exits |-> {"zero"}])

NetNext ==
    \/ \E w \in 1..2 : TaskStart(w)
    \/ \E t \in 1..2 : NetSocket(t)
    \/ \E t \in 1..2 : NetTls(t)
    \/ \E t \in 1..2 : NetConnect(t)
    \/ \E t \in 1..2 : Popen(t)
    \/ \E t \in 1..2 : LoopLine(t)
    \/ \E t \in 1..2 : LoopEnd(t)
    \/ \E t \in 1..2 : NetFinally(t)
    \/ \E t \in 1..2 : TaskLog(t)
    \/ PoolJoin

NetSpec == NetInit /\ [][NetNext]_vars

(***************************************************************************)
(* Properties of discovery.                                                *)
(***************************************************************************)
\* list_full_paths has returned (not raised) in this run
Returned == pc # "start" /\ lfp.ok

\* the file name and the name of the directory above it, empty when missing
BaseName(path) == FromEnd(Split(path, Slash), 1).val

DirName(file) ==
    IF Len(Split(file, Slash)) >= 2 THEN FromEnd(Split(file, Slash), 2).val
    ELSE <<>>

\* the time tokens of a data file: the third- and second-to-last parts of
\* its name between dashes
MaxToken(file) == FromEnd(Split(BaseName(file), "-"), 3)

MinToken(file) == FromEnd(Split(BaseName(file), "-"), 2)

\* both tokens are there and are numbers
WellFormed(file) ==
    /\ MaxToken(file).ok
    /\ PyInt(MaxToken(file).val).ok
    /\ PyInt(MinToken(file).val).ok

\* the two bounds of the overlap of a well-formed file with the window
LowerBound(file) == et_options.earliest <= PyInt(MaxToken(file).val).val

UpperBound(file) == et_options.latest >= PyInt(MinToken(file).val).val

\* an exclusion rule of exporttool matches
Excluded(file) ==
    \/ Contains(file, DISABLED)
    \/ StartsWith(DirName(file), rb_)
    \/ StartsWith(DirName(file), hot)

\* the candidate files the claim C1 is about
Eligible == {i \in 1..Len(lfp.files) :
               WellFormed(lfp.files[i]) /\ ~Excluded(lfp.files[i])}

\* the files whose iteration appended their parent directory
Selected == {lfp.appended[k].from : k \in 1..Len(lfp.appended)}

\* C1 (as amended): in exporttool.list_full_paths, a file with well-formed
\* time tokens that matches no exclusion rule is selected if and only if
\* earliest <= max_time and latest >= min_time, a file satisfying only one
\* of the two bounds is not selected, and a directory is in the result if
\* and only if it is the parent of some selected file.
C1_SelectedIffOverlap ==
    (variant = "exporttool" /\ Returned) =>
        /\ \A i \in Eligible :
             i \in Selected <=> (LowerBound(lfp.files[i]) /\ UpperBound(lfp.files[i]))
        /\ Selected \subseteq Eligible
        /\ Range(lfp.val) = {ParentDir(lfp.files[i]) : i \in Selected}

\* a run where a file satisfying one bound only is left out, its directory
\* with it, while another file is selected
C1_OneBoundOnly ==
    /\ variant = "exporttool"
    /\ Returned
    /\ Selected # {}
    /\ \E i \in Eligible :
         /\ LowerBound(lfp.files[i]) # UpperBound(lfp.files[i])
         /\ i \notin Selected
         /\ ParentDir(lfp.files[i]) \notin Range(lfp.val)

\* C1 as stated: the parent directory of every such file is in the result
\* if and only if the file itself overlaps the window
C1_AsStated ==
    (variant = "exporttool" /\ Returned) =>
        \A i \in Eligible :
            ParentDir(lfp.files[i]) \in Range(lfp.val)
            <=> (LowerBound(lfp.files[i]) /\ UpperBound(lfp.files[i]))

\* the file a returned bucket was appended for, and the bucket's name
Origins == {<<lfp.files[lfp.appended[k].from], lfp.appended[k].path>> :
              k \in 1..Len(lfp.appended)}

\* C2 (as amended): no returned bucket comes from a file whose bucket
\* directory path contains DISABLED, or whose bucket name starts with rb_
\* or hot_, whatever the times and the window; exporttool moreover returns
\* none whose file name contains DISABLED or whose bucket name starts with
\* hot.
C2_ExcludedNeverReturned ==
    Returned =>
        /\ Range(lfp.val) = {o[2] : o \in Origins}
        /\ \A o \in Origins :
             /\ o[2] = ParentDir(o[1])
             /\ ~Contains(o[2], DISABLED)
             /\ ~StartsWith(BaseName(o[2]), rb_)
             /\ ~StartsWith(BaseName(o[2]), hot_)
             /\ variant = "exporttool" =>
                  ~Contains(o[1], DISABLED) /\ ~StartsWith(BaseName(o[2]), hot)

\* a run where a replicated, hot or disabled bucket whose times overlap the
\* window is left out while another bucket is returned
C2_ExcludedOverlapping ==
    /\ Returned
    /\ lfp.val # <<>>
    /\ \E i \in 1..Len(lfp.files) :
         /\ WellFormed(lfp.files[i])
         /\ et_options.earliest < PyInt(MaxToken(lfp.files[i]).val).val
         /\ et_options.latest > PyInt(MinToken(lfp.files[i]).val).val
         /\ \/ Contains(ParentDir(lfp.files[i]), DISABLED)
            \/ StartsWith(DirName(lfp.files[i]), rb_)
            \/ StartsWith(DirName(lfp.files[i]), hot_)
         /\ ParentDir(lfp.files[i]) \notin Range(lfp.val)

\* C2 as stated: in both programs no returned bucket comes from a file
\* whose path contains DISABLED
C2_AsStated ==
    Returned =>
        \A o \in Origins :
            /\ ~Contains(o[1], DISABLED)
            /\ ~StartsWith(BaseName(o[2]), rb_)
            /\ ~StartsWith(BaseName(o[2]), hot_)

\* the commands have been built
Built == pc \in {"prompt", "mkpool", "pool", "done"}

\* C3: the result of list_full_paths holds each parent directory at most
\* once, any number of selected files of one directory giving one bucket,
\* and build_cmd_list makes one command for each distinct selected parent
\* directory.
C3_OneBucketPerDirectory ==
    (variant = "exporttool" /\ Returned) =>
        /\ \A i, j \in 1..Len(lfp.val) : lfp.val[i] = lfp.val[j] => i = j
        /\ Range(lfp.val) = {ParentDir(lfp.files[i]) : i \in Selected}
        /\ Built =>
             /\ Len(cli_commands) = Cardinality({ParentDir(lfp.files[i]) : i \in Selected})
             /\ {CommandBucket(cli_commands[k]).val : k \in 1..Len(cli_commands)}
                  = {ParentDir(lfp.files[i]) : i \in Selected}

\* a run where two selected files share their parent directory and the
\* commands have been built
C3_SharedDirectory ==
    /\ variant = "exporttool"
    /\ Returned
    /\ Built
    /\ \E i, j \in Selected :
         i # j /\ ParentDir(lfp.files[i]) = ParentDir(lfp.files[j])

(***************************************************************************)
(* Properties of main.                                                     *)
(***************************************************************************)
\* C4: in a run configured with earliest >= latest, main ends with a
\* non-zero status before any command is built or dispatched: no task is
\* queued or started (so no subprocess, no connection) and no output file
\* is opened.
C4_EmptyWindowAborts ==
    et_options.earliest >= et_options.latest =>
        /\ pc \in {"start", "check", "exited"}
        /\ pc = "exited" => exit_status # 0
        /\ cli_commands = <<>>
        /\ tasks = <<>>
        /\ fsys = <<>>

\* a run with earliest >= latest in which discovery found a bucket and the
\* sanity check then ended it
C4_AbortedWithBuckets ==
    /\ et_options.earliest >= et_options.latest
    /\ pc = "exited"
    /\ main_exc = "none"
    /\ exit_status = 1
    /\ lfp.ok
    /\ buckets # <<>>

(***************************************************************************)
(* Properties of the reassembly loop.                                      *)
(***************************************************************************)
RECURSIVE RunsOf(_, _, _)
\* the runs of the first n lines as C5 describes them: a discarded line is
\* part of none, a line with the 10-digit prefix begins one, any other line
\* continues the run before it, and belongs to none when there is none
RunsOf(lines, n, runs) ==
    IF n > Len(lines) THEN runs
    ELSE IF Discarded(lines[n]) THEN RunsOf(lines, n + 1, runs)
    ELSE IF StartsRecord(lines[n]) THEN RunsOf(lines, n + 1, Append(runs, lines[n]))
    ELSE IF runs = <<>> THEN RunsOf(lines, n + 1, runs)
    ELSE RunsOf(lines, n + 1, [runs EXCEPT ![Len(runs)] = @ \o lines[n]])

\* C5 as stated: every buffer the loop has passed to record_format is, in
\* order, one of the maximal runs of non-discarded lines that begin with a
\* line with the 10-digit prefix; none begins with a line that lacks it.
C5_AsStated ==
    \A t \in DOMAIN tasks :
        /\ Len(tasks[t].finalized) <= Len(RunsOf(tasks[t].stream, 1, <<>>))
        /\ \A k \in 1..Len(tasks[t].finalized) :
             /\ StartsRecord(tasks[t].finalized[k])
             /\ tasks[t].finalized[k] = RunsOf(tasks[t].stream, 1, <<>>)[k]

RECURSIVE BuffersOf(_, _, _, _)
\* the buffers a loop that runs to the end of the stream passes to
\* record_format, the flush after the loop included
BuffersOf(lines, n, current_rec, buffers) ==
    IF n > Len(lines)
    THEN IF current_rec # <<>> THEN Append(buffers, current_rec) ELSE buffers
    ELSE BuffersOf(lines, n + 1, LoopBody(current_rec, lines[n]).current_rec,
                   IF LoopBody(current_rec, lines[n]).finalize
                   THEN Append(buffers, current_rec) ELSE buffers)

RECURSIVE RecordsOf(_, _)
\* the records of the buffers that match the pattern, in order
RecordsOf(buffers, directory) ==
    IF buffers = <<>> THEN <<>>
    ELSE IF record_split(Head(buffers)).ok
         THEN <<record_format(Head(buffers), directory).val>>
              \o RecordsOf(Tail(buffers), directory)
    ELSE RecordsOf(Tail(buffers), directory)

\* the task has run to its end and nothing around it failed: the file was
\* opened or the connection made, the child started, every line was decoded
\* and every write or send took the whole record
RanUnhindered(task) ==
    /\ task.pc = "returned"
    /\ task.fn \in {"exo", "net"}
    /\ task.faults = {}
    /\ task.process # "none"

\* C6 as stated: when the stream has ended with lines in the buffer, that
\* last buffer has been finalized, and emitted to the sink if it is a
\* record, before the task ends.
C6_AsStated ==
    \A t \in DOMAIN tasks :
        (RanUnhindered(tasks[t]) /\ BuffersOf(tasks[t].stream, 1, <<>>, <<>>) # <<>>) =>
            /\ tasks[t].finalized # <<>>
            /\ tasks[t].finalized[Len(tasks[t].finalized)]
                 = BuffersOf(tasks[t].stream, 1, <<>>, <<>>)
                     [Len(BuffersOf(tasks[t].stream, 1, <<>>, <<>>))]
            /\ record_split(tasks[t].finalized[Len(tasks[t].finalized)]).ok =>
                 /\ tasks[t].written # <<>>
                 /\ tasks[t].written[Len(tasks[t].written)]
                      = record_format(tasks[t].finalized[Len(tasks[t].finalized)],
                                      et_options.directory).val

\* C7 as stated: a buffer that does not match the pattern is dropped and
\* the loop goes on, so at the end of the task the sink holds the record of
\* every buffer of the stream that matches, in order, and nothing else.
C7_AsStated ==
    \A t \in DOMAIN tasks :
        RanUnhindered(tasks[t]) =>
            tasks[t].written
              = RecordsOf(BuffersOf(tasks[t].stream, 1, <<>>, <<>>), et_options.directory)

\* the two readings of the header test: the line is the header, or the
\* header is part of the line
IsHeader(line) == line = header \/ line = header \o <<"\n">>

HasHeader(line) == Contains(line, header)

RECURSIVE BufferAfter(_, _, _)
\* the buffer after the first n lines when no line is lost: a dropped line
\* changes nothing, a line with the 10-digit prefix begins the buffer anew,
\* any other line is appended as it is. stated chooses the header test.
BufferAfter(lines, n, stated) ==
    IF n = 0 THEN <<>>
    ELSE IF \/ Contains(lines[n], log_cmdline)
            \/ (IF stated THEN IsHeader(lines[n]) ELSE HasHeader(lines[n]))
         THEN BufferAfter(lines, n - 1, stated)
    ELSE IF StartsRecord(lines[n]) THEN lines[n]
    ELSE BufferAfter(lines, n - 1, stated) \o lines[n]

\* C8 (as amended): while the loop runs, a line it has read was discarded
\* exactly when it contains the output-format header or the diagnostic
\* marker; every other line that did not start a new record was appended
\* verbatim to the buffer, so the buffer holds every line read since the
\* last record start but those.
C8_DiscardsLinesContainingHeader ==
    \A t \in DOMAIN tasks :
        tasks[t].pc = "loop" =>
            tasks[t].current_rec = BufferAfter(tasks[t].stream, tasks[t].nread, FALSE)

\* the loop has dropped a line that contains the header without being it,
\* and has appended a line after it to the buffer
C8_HeaderInsideLine ==
    \E t \in DOMAIN tasks :
        /\ tasks[t].pc = "loop"
        /\ \E i, j \in 1..tasks[t].nread :
             /\ i < j
             /\ HasHeader(tasks[t].stream[i]) /\ ~IsHeader(tasks[t].stream[i])
             /\ ~StartsRecord(tasks[t].stream[j])
             /\ ~HasHeader(tasks[t].stream[j])
             /\ ~Contains(tasks[t].stream[j], log_cmdline)
        /\ Len(tasks[t].current_rec) > Len(tasks[t].stream[tasks[t].nread])

\* C8 as stated: only a line that equals the header, or contains the
\* marker, is discarded
C8_AsStated ==
    \A t \in DOMAIN tasks :
        tasks[t].pc = "loop" =>
            tasks[t].current_rec = BufferAfter(tasks[t].stream, tasks[t].nread, TRUE)

(***************************************************************************)
(* Properties of the pool.                                                 *)
(***************************************************************************)
\* the tasks that have met a failure: the child did not start, the sink
\* could not be opened or written, or a buffer did not parse
Failed == {t \in DOMAIN tasks : tasks[t].printed # <<>>}

\* the pool is not stuck: map can return, or a task in progress is at a
\* step of its function, or an idle worker can take the next command
PoolCanStep ==
    \/ \A t \in DOMAIN tasks : Finished(tasks[t])
    \/ \E t \in DOMAIN tasks :
         /\ tasks[t].pc \in {"exo_open", "popen", "wait", "loop", "exo_close",
                             "net_socket", "net_tls", "net_connect",
                             "net_finally", "log"}
         /\ tasks[t].nread <= Len(tasks[t].stream)
         /\ tasks[t].pc = "wait" => ChildCanExit(tasks[t])
    \/ NextTask # 0 /\ \E w \in 1..et_options.num_streams : WorkerIdle(w)

\* C9: in exporttool, whichever tasks of a batch fail, no exception leaves
\* run_cmd_send_data: no call ends by raising, a failed task stops no other
\* (the pool is never stuck while a task is unfinished), map returns
\* normally and main reaches the completion summary with every task run to
\* its end.
C9_FailuresStayInTheirTask ==
    (variant = "exporttool" /\ tasks # <<>>) =>
        /\ \A t \in DOMAIN tasks : tasks[t].pc # "raised" /\ tasks[t].exc = "none"
        /\ pc \in {"pool", "done"}
        /\ main_exc = "none"
        /\ pc = "pool" => PoolCanStep
        /\ pc = "done" =>
             /\ exit_status = 0
             /\ \A t \in DOMAIN tasks : tasks[t].pc = "returned"

\* main has reached the summary after a batch in which one task failed and
\* another wrote its record
C9_OneFailedOthersDone ==
    /\ variant = "exporttool"
    /\ pc = "done"
    /\ Failed # {}
    /\ \E t \in DOMAIN tasks : t \notin Failed /\ tasks[t].written # <<>>

\* map has returned, to main or by raising in it
MapReturned == tasks # <<>> /\ pc \in {"done", "exited"}

\* C10: at no time are more than num_streams tasks in progress, no task is
\* started twice, and when map returns every command of the list has been
\* started exactly once, each as one task.
C10_EachTaskOnceWithinStreams ==
    /\ Cardinality({t \in DOMAIN tasks : InProgress(tasks[t])}) <= et_options.num_streams
    /\ \A t \in DOMAIN tasks : tasks[t].starts <= 1
    /\ \A t \in DOMAIN tasks : tasks[t].pc # "queued" <=> tasks[t].starts = 1
    /\ tasks # <<>> =>
         /\ Len(tasks) = Len(cli_commands)
         /\ \A t \in DOMAIN tasks :
              tasks[t].pc = "queued" => tasks[t].command = cli_commands[t]
    /\ MapReturned => \A t \in DOMAIN tasks : tasks[t].starts = 1

\* more commands than streams: every stream is busy while a command waits
C10_StreamsBusyTaskWaiting ==
    /\ pc = "pool"
    /\ Len(tasks) > et_options.num_streams
    /\ Cardinality({t \in DOMAIN tasks : InProgress(tasks[t])}) = et_options.num_streams
    /\ \E t \in DOMAIN tasks : tasks[t].pc = "queued"

(***************************************************************************)
(* Properties of the sinks.                                                *)
(***************************************************************************)
\* the task ran to its end and the system refused it nothing
Untroubled(task) == task.pc = "returned" /\ task.faults = {}

\* C11 as stated, for the documented values of file_out_type: with file_out
\* set no task makes a socket and the results of every task are in a file
\* under file_out_path; without it no task opens or writes a file and every
\* task runs the network output.
C11_AsStated ==
    (variant = "exporttool" /\ et_options.file_out_type \in {seo, exo}) =>
        \A t \in DOMAIN tasks :
            Untroubled(tasks[t]) =>
                IF et_options.file_out
                THEN /\ tasks[t].sock = "none"
                     /\ StartsWith(tasks[t].file_out_name, et_options.file_out_path)
                     /\ tasks[t].fn = "seo" =>
                          Words(tasks[t].command)[5] = tasks[t].file_out_name
                     /\ tasks[t].fn = "exo" =>
                          /\ tasks[t].file_out_name \in DOMAIN fsys
                          /\ fsys[tasks[t].file_out_name] = tasks[t].written
                ELSE /\ tasks[t].fn = "net"
                     /\ tasks[t].file = "none"
                     /\ DOMAIN fsys = {}

\* the index a bucket belongs to, derived from the bucket's own path as
\* index_name derives it from the directory the bucket lies in
OwnIndex(bucket) == index_name(ParentDir(bucket) \o Slash)

\* the string ends with a newline
Terminated(s) == s # <<>> /\ s[Len(s)] = "\n"

\* C12 as stated: every whole record a task has written carries, as its
\* index, the index name derived from the path of the bucket of that task,
\* whether the bucket was found under the directory or given in the import
\* list.
C12_AsStated ==
    variant = "exporttool" =>
        \A t \in DOMAIN tasks :
            \A k \in 1..Len(tasks[t].written) :
                Terminated(tasks[t].written[k]) =>
                    Contains(tasks[t].written[k],
                             JsonItem(<<"i", "n", "d", "e", "x">>,
                                      OwnIndex(CommandBucket(tasks[t].command).val))
                             \o <<"}">>)

\* C13 as stated: what the network sink has received of a task is, record
\* by record, the complete newline-terminated record of each buffer sent.
C13_AsStated ==
    \A t \in DOMAIN tasks :
        tasks[t].fn = "net" =>
            \A k \in 1..Len(tasks[t].written) :
                tasks[t].written[k]
                  = record_format(tasks[t].finalized[k], et_options.directory).val

(***************************************************************************)
(* Properties of the handles of a task.                                    *)
(***************************************************************************)
\* how many times the log of close calls names x
Count(log, x) == Cardinality({i \in 1..Len(log) : log[i] = x})

\* the output function of the task has been left, by return or by raise
FunctionLeft(task) == task.pc \in {"log", "returned", "raised"}

\* C14: in exporttool no socket and no output file is closed twice, and
\* once the output function of a task has been left, on whatever path, the
\* socket net_output made (through its TLS wrapper if it has one) and the
\* file exo_file_output opened have each been closed exactly once and none
\* is still open.
C14_SocketAndFileClosedOnce ==
    variant = "exporttool" =>
        \A t \in DOMAIN tasks :
            /\ Count(tasks[t].closed, "sock")
                 + Count(tasks[t].closed, "secure_sock") <= 1
            /\ Count(tasks[t].closed, "exo_file") <= 1
            /\ FunctionLeft(tasks[t]) =>
                 /\ Count(tasks[t].closed, "sock")
                      + Count(tasks[t].closed, "secure_sock")
                      = IF tasks[t].sock = "none" THEN 0 ELSE 1
                 /\ Count(tasks[t].closed, "exo_file")
                      = IF tasks[t].file = "none" THEN 0 ELSE 1
                 /\ tasks[t].sock \in {"none", "closed"}
                      \/ tasks[t].secure_sock = "closed"
                 /\ tasks[t].file \in {"none", "closed"}

\* one task whose connect failed and one whose loop was ended by an
\* exception have both left net_output, each with its socket closed
C14_ClosedOnErrorPaths ==
    /\ \E t \in DOMAIN tasks :
         /\ FunctionLeft(tasks[t])
         /\ "connect" \in tasks[t].faults
         /\ tasks[t].closed = <<"sock">>
    /\ \E t \in DOMAIN tasks :
         /\ FunctionLeft(tasks[t])
         /\ "decode" \in tasks[t].faults
         /\ tasks[t].closed = <<"stdout", "sock">>

\* C15 as stated: once the output function of a task has been left with
\* its child started, the child's handle has been released, exactly once:
\* its captured output has been closed or the child has been waited for.
C15_AsStated ==
    variant = "exporttool" =>
        \A t \in DOMAIN tasks :
            (FunctionLeft(tasks[t]) /\ tasks[t].process # "none") =>
                /\ tasks[t].process \in {"stdout_closed", "exited"}
                /\ Count(tasks[t].closed, "stdout")
                     = IF tasks[t].process = "stdout_closed" THEN 1 ELSE 0

\* C16 as stated: with tls set, the socket a task has made is wrapped by
\* TLS whatever check_hostname is, and the context it is wrapped with checks
\* the server's hostname exactly when check_hostname is set.
C16_AsStated ==
    (variant = "exporttool" /\ ~et_options.file_out /\ et_options.tls) =>
        \A t \in DOMAIN tasks :
            (FunctionLeft(tasks[t]) /\ tasks[t].sock # "none") =>
                /\ tasks[t].secure_sock # "none"
                /\ TlsContext.ok
                /\ TlsContext.context.check_hostname = et_options.check_hostname

(***************************************************************************)
(* Discovery and the data files it cannot read the times of.               *)
(***************************************************************************)
\* the found files whose time tokens are there and numeric
Readable == SelectSeq(globbed, WellFormed)

\* C17 as stated, for the files found under the directory: list_full_paths
\* returns whatever the names of the files, and returns what it returns
\* when the files with missing or non-numeric time tokens are left out.
C17_AsStated ==
    (pc # "start" /\ et_options.import_buckets = <<>>) =>
        /\ lfp.ok
        /\ Range(lfp.val)
             = Range(IF variant = "exporttool"
                     THEN list_full_paths(Readable, et_options.earliest,
                                          et_options.latest, <<>>).val
                     ELSE scribl_list_full_paths(Readable, et_options.earliest,
                                                 et_options.latest).val)

\* "db_"
db_ == <<"d", "b", "_">>

\* C18 as stated: with only_db set, the name of every bucket list_full_paths
\* returns starts with db_.
C18_AsStated ==
    (Returned /\ variant = "exporttool" /\ et_options.only_db) =>
        \A i \in 1..Len(lfp.val) : StartsWith(BaseName(lfp.val[i]), db_)

(***************************************************************************)
(* The order of the records of a task.                                     *)
(***************************************************************************)
\* C19: within a task the buffers passed to record_format are, in order,
\* the first buffers of the subprocess output, and the sink has received
\* one write for each of them, in that order: the k-th thing written is the
\* record of the k-th buffer (the part of it the sink took), nothing is
\* written twice, and only the buffer finalized last may lack its write,
\* when formatting it or writing it failed. An output file holds exactly
\* what was written.
C19_WrittenInOrderOnce ==
    \A t \in DOMAIN tasks :
        tasks[t].fn \in {"net", "exo"} =>
            /\ Len(tasks[t].finalized)
                 <= Len(BuffersOf(tasks[t].stream, 1, <<>>, <<>>))
            /\ \A k \in 1..Len(tasks[t].finalized) :
                 tasks[t].finalized[k]
                   = BuffersOf(tasks[t].stream, 1, <<>>, <<>>)[k]
            /\ Len(tasks[t].written) <= Len(tasks[t].finalized)
            /\ Len(tasks[t].finalized) <= Len(tasks[t].written) + 1
            /\ \A k \in 1..Len(tasks[t].written) :
                 /\ StartsWith(record_format(tasks[t].finalized[k],
                                             et_options.directory).val,
                               tasks[t].written[k])
                 /\ "part" \notin tasks[t].faults =>
                      Terminated(tasks[t].written[k])
            /\ tasks[t].file_out_name \in DOMAIN fsys =>
                 fsys[tasks[t].file_out_name] = tasks[t].written

\* a task has returned having written the records of two different buffers,
\* the second of them of two lines
C19_TwoRecordsInOrder ==
    \E t \in DOMAIN tasks :
        /\ tasks[t].pc = "returned"
        /\ tasks[t].stream = <<Line_rec_a, Line_rec_b1, Line_rec_b2>>
        /\ Len(tasks[t].written) = 2
        /\ tasks[t].written[1] # tasks[t].written[2]
        /\ Terminated(tasks[t].written[2])

(***************************************************************************)
(* The exit status of the extraction subprocess.                           *)
(***************************************************************************)
\* C20 as stated: a task whose child has exited with a status other than
\* zero has reported an error by the time it returns, which a task whose
\* child exited with status zero and met no failure has not.
C20_AsStated ==
    \A t \in DOMAIN tasks :
        (tasks[t].pc = "returned" /\ tasks[t].child_exit = "nonzero") =>
            tasks[t].printed # <<>>

LeftTry(task) == task.pc \in {"net_finally", "log", "returned"}

\* the task met no failure of its own
Unfailed(task) == task.faults = {} /\ ~et_options.tls

\* C22: in net_output the connection comes before the child. A task whose
\* socket, TLS context or connect failed has started no child and sent no
\* record, and a task with a child has passed connect without a fault. A
\* task whose send raised has left the loop with the failed record the last
\* one it took up, whatever was still to read, and sends nothing more. No
\* failure leaves the call, the pool is never stuck on it, and a task that
\* met no failure of its own returns having read its whole stream and sent
\* every record of it, whatever happened to the other task.
C22_ConnectBeforeChildAndSendFailureEndsTask ==
    /\ \A t \in DOMAIN tasks : tasks[t].fn = "net" =>
         /\ (tasks[t].faults \cap {"socket", "connect"} # {}
                \/ (et_options.tls /\ tasks[t].secure_sock = "none")) =>
              /\ tasks[t].process = "none"
              /\ tasks[t].stream = <<>>
              /\ tasks[t].written = <<>>
              /\ tasks[t].pc \in {"net_socket", "net_tls"} \/ LeftTry(tasks[t])
         /\ (tasks[t].process # "none" \/ tasks[t].written # <<>>) =>
              /\ tasks[t].faults \cap {"socket", "connect"} = {}
              /\ "connected" \in {tasks[t].sock, tasks[t].secure_sock}
                   \/ "sock" \in Range(tasks[t].closed)
                   \/ "secure_sock" \in Range(tasks[t].closed)
         /\ "write" \in tasks[t].faults =>
              /\ LeftTry(tasks[t])
              /\ Len(tasks[t].finalized) = Len(tasks[t].written) + 1
         /\ tasks[t].pc # "raised"
         /\ (Unfailed(tasks[t]) /\ tasks[t].pc = "returned") =>
              /\ tasks[t].process # "none"
              /\ tasks[t].nread = Len(tasks[t].stream)
              /\ Len(tasks[t].written) = Len(tasks[t].finalized)
              /\ Len(tasks[t].written) = Len(tasks[t].stream)
    /\ pc = "pool" => PoolCanStep
    /\ main_exc = "none"

\* one task's send raised on the first of the records of its stream, so
\* that none of them was sent, and the other task has returned with every
\* record of its stream sent
C22_SendFailedMidStreamSiblingComplete ==
    \E t, u \in DOMAIN tasks :
        /\ t # u
        /\ tasks[t].fn = "net" /\ tasks[u].fn = "net"
        /\ "write" \in tasks[t].faults
        /\ tasks[t].written = <<>>
        /\ Len(tasks[t].finalized) = 1
        /\ Len(tasks[t].stream) = MaxLines - 1
        /\ tasks[t].pc = "returned"
        /\ Unfailed(tasks[u])
        /\ tasks[u].pc = "returned"
        /\ Len(tasks[u].written) = MaxLines - 1

(***************************************************************************)
(* C23                                                                     *)
(***************************************************************************)
\* the worker is in process.wait() and the child is in a write to the pipe
\* that nobody reads: neither goes on
BlockedOnEachOther(task) ==
    task.fn = "seo" /\ task.pc = "wait" /\ ~ChildCanExit(task)

\* C23: in raw file mode the worker that waits for its child and the child
\* whose output is captured in the pipe the worker never reads are in no
\* state blocked on each other: whatever the child prints, wait can return.
C23_AsStated ==
    \A t \in DOMAIN tasks : ~BlockedOnEachOther(tasks[t])

====
